---- MODULE Spec2Model ----
(***************************************************************************)
(* The checkpointed ingestion pipeline of eas-attestor-github:             *)
(*   utils/state_manager.py     the checkpoint store (one JSON file per    *)
(*                              network)                                   *)
(*   utils/basescan.py          the event source (log query with retries)  *)
(*   utils/gist_validator.py    the claim validator                        *)
(*   utils/contract.py          the attestation writer                     *)
(*   process_attestations.py    the orchestrator (main, one pass per run)  *)
(***************************************************************************)
EXTENDS Integers, Sequences, FiniteSets, TLC

(***************************************************************************)
(* Bounds of the model.                                                    *)
(***************************************************************************)
MaxRuns == 2
MaxLogs == 2
MaxHeadDelta == 1

(***************************************************************************)
(* Program constants.                                                      *)
(***************************************************************************)
SepoliaDefault == 7000000
MainnetDefault == 10000000
UnknownDefault == 0
MaxAttempts == 3
RateLimitSleep == 5
ErrorSleep == 2

KnownNetworks == {"sepolia", "mainnet"}
Networks == KnownNetworks \cup {"goerli"}

ZeroAddress == "0x0000000000000000000000000000000000000000"

(***************************************************************************)
(* utils/state_manager.py                                                  *)
(*                                                                         *)
(* A state file is absent, holds bytes that json.load rejects (an empty or *)
(* partly written file), or holds a JSON object.  A JSON object is a       *)
(* function from its keys to their values.                                 *)
(***************************************************************************)
Absent == [kind |-> "absent"]
Corrupt == [kind |-> "corrupt"]
Json(d) == [kind |-> "json", data |-> d]

EmptyDict == [k \in {} |-> 0]
DictSet(d, k, v) == [x \in (DOMAIN d) \cup {k} |-> IF x = k THEN v ELSE d[x]]
DictGet(d, k, dflt) == IF k \in DOMAIN d THEN d[k] ELSE dflt

SharedStateFileName(n) == "state.json"

\* StateManager.__init__: self.state_file = state/<network>_state.json.
\* The store is the directory: one file per file name.
StateFileName(n) == n \o "_state.json"
StateFiles == {StateFileName(n) : n \in Networks}

\* _get_default_starting_block: defaults.get(self.network, 0)
GetDefaultStartingBlock(n) ==
    IF n = "sepolia" THEN SepoliaDefault
    ELSE IF n = "mainnet" THEN MainnetDefault
    ELSE UnknownDefault

\* The body of get_last_processed_block's try block: the value it returns, or
\* the exception json.load raises on bytes that are no JSON.
GetBody(file, n) ==
    IF file.kind = "absent"
    THEN [raised |-> FALSE, ret |-> GetDefaultStartingBlock(n)]
    ELSE IF file.kind = "corrupt"
    THEN [raised |-> TRUE, ret |-> 0]
    ELSE [raised |-> FALSE,
          ret |-> DictGet(file.data, "last_processed_block",
                          GetDefaultStartingBlock(n))]

GetWithoutHandler(file, n) == GetBody(file, n)

\* get_last_processed_block: every exception of the body is caught and turned
\* into the default.
GetLastProcessedBlock(file, n) ==
    LET r == GetBody(file, n)
    IN  IF r.raised
        THEN [raised |-> FALSE, ret |-> GetDefaultStartingBlock(n)]
        ELSE r

UpdateLoadKeepingBlock(file, n, block_number) ==
    IF file.kind = "corrupt"
    THEN [raised |-> TRUE, data |-> EmptyDict]
    ELSE LET d0 == IF file.kind = "json" THEN file.data ELSE EmptyDict
             d1 == DictSet(d0, "last_processed_block",
                           DictGet(d0, "last_processed_block", block_number))
         IN  [raised |-> FALSE, data |-> DictSet(d1, "network", n)]

UpdateLoadDroppingKeys(file, n, block_number) ==
    IF file.kind = "corrupt"
    THEN [raised |-> TRUE, data |-> EmptyDict]
    ELSE [raised |-> FALSE,
          data |-> DictSet(DictSet(EmptyDict, "last_processed_block",
                                   block_number), "network", n)]

UpdateLoadStartingAfresh(file, n, block_number) ==
    LET d0 == IF file.kind = "json" THEN file.data ELSE EmptyDict
        d1 == DictSet(d0, "last_processed_block", block_number)
    IN  [raised |-> FALSE, data |-> DictSet(d1, "network", n)]

\* update_last_processed_block, lines 38-45: load the existing object (or
\* start from {}), then set the two keys.  json.load raises on a corrupt file.
UpdateLoad(file, n, block_number) ==
    IF file.kind = "corrupt"
    THEN [raised |-> TRUE, data |-> EmptyDict]
    ELSE LET d0 == IF file.kind = "json" THEN file.data ELSE EmptyDict
             d1 == DictSet(d0, "last_processed_block", block_number)
         IN  [raised |-> FALSE, data |-> DictSet(d1, "network", n)]

UpdateSwallows == "swallow"

\* update_last_processed_block, lines 50-52: the handler prints and re-raises.
UpdateOnError == "raise"

(***************************************************************************)
(* utils/basescan.py                                                       *)
(*                                                                         *)
(* A log record of the upstream API.  A number the API sends as a hex      *)
(* string is the pair <<"0x", n>>; int(s, 16) takes the number out of it.  *)
(* A log record lacking a key the parser reads has wellformed = FALSE.     *)
(***************************************************************************)
Hex(n) == <<"0x", n>>
IntOfHex(h) == h[2]

PlaceholderUrl == [netloc |-> "", path |-> << <<"p","l","a","c","e","h","o","l","d","e","r">> >>]
UnknownUrl == [netloc |-> "", path |-> << <<"u","n","k","n","o","w","n">> >>]
GoodUrl == [netloc |-> "gist.github.com", path |-> << <<"b","o","b">>, <<"a","B","3","f">> >>]

\* An address is a string of 40 hex digits (hex names the digits, up to
\* letter case) written in lower case or in mixed checksum case.  hex = ""
\* is the empty string.
Addr(h, st) == [hex |-> h, style |-> st]
Lower(a) == [a EXCEPT !.style = "lower"]

\* _get_contract_address: the table entry of the network; raises when the
\* entry is missing or the zero placeholder.
GetContractAddress(table, n) ==
    IF n \notin DOMAIN table \/ table[n] = ZeroAddress
    THEN [raised |-> TRUE, address |-> ZeroAddress]
    ELSE [raised |-> FALSE, address |-> table[n]]

\* _make_request: the loop over attempt = 0, 1, 2.  outs[a + 1] is what the
\* a-th HTTP request meets: kind "error" (requests.get, raise_for_status or
\* response.json raises), "ratelimit" (message NOTOK, result names the rate
\* limit), "ok1" (status "1" with logs) or "ok0" (status "0").
RECURSIVE AttemptSleepingAfterLast(_, _, _)
AttemptSleepingAfterLast(outs, attempt, sleeps) ==
    LET o == outs[attempt + 1]
    IN  IF o.kind = "error"
        THEN IF attempt < MaxAttempts - 1
             THEN AttemptSleepingAfterLast(outs, attempt + 1,
                                           Append(sleeps, ErrorSleep))
             ELSE [raised |-> TRUE, data |-> o, requests |-> attempt + 1,
                   sleeps |-> Append(sleeps, ErrorSleep)]
        ELSE IF o.kind = "ratelimit" /\ attempt < MaxAttempts - 1
        THEN AttemptSleepingAfterLast(outs, attempt + 1,
                                      Append(sleeps, RateLimitSleep))
        ELSE [raised |-> FALSE, data |-> o, requests |-> attempt + 1,
              sleeps |-> sleeps]

RECURSIVE Attempt(_, _, _)
Attempt(outs, attempt, sleeps) ==
    LET o == outs[attempt + 1]
    IN  IF o.kind = "error"
        THEN IF attempt < MaxAttempts - 1
             THEN Attempt(outs, attempt + 1, Append(sleeps, ErrorSleep))
             ELSE [raised |-> TRUE, data |-> o, requests |-> attempt + 1,
                   sleeps |-> sleeps]
        ELSE IF o.kind = "ratelimit" /\ attempt < MaxAttempts - 1
        THEN Attempt(outs, attempt + 1, Append(sleeps, RateLimitSleep))
        ELSE [raised |-> FALSE, data |-> o, requests |-> attempt + 1,
              sleeps |-> sleeps]

MakeRequest(outs) == Attempt(outs, 0, <<>>)

\* _parse_gist_submitted_event: None (ok = FALSE) when reading the log raises.
ParseGistSubmittedEvent(log) ==
    IF ~log.wellformed
    THEN [ok |-> FALSE, event |-> [submitter |-> Addr("", "lower"),
                                   gist_url |-> PlaceholderUrl,
                                   timestamp |-> 0,
                                   transactionHash |-> log.transactionHash,
                                   blockNumber |-> 0]]
    ELSE [ok |-> TRUE,
          event |-> [submitter |-> log.topics1,
                     gist_url |-> PlaceholderUrl,
                     timestamp |-> IntOfHex(log.timeStamp),
                     transactionHash |-> log.transactionHash,
                     blockNumber |-> IntOfHex(log.blockNumber)]]

RECURSIVE ParseAll(_)
ParseAll(logs) ==
    IF logs = <<>> THEN <<>>
    ELSE LET p == ParseGistSubmittedEvent(Head(logs))
         IN  (IF p.ok THEN <<p.event>> ELSE <<>>) \o ParseAll(Tail(logs))

\* get_gist_submission_events with contract_address = None: every exception,
\* and every response whose status is not "1", becomes the empty list.
GetGistSubmissionEvents(table, n, outs) ==
    LET a == GetContractAddress(table, n)
        r == MakeRequest(outs)
    IN  IF a.raised THEN [events |-> <<>>, requests |-> 0, sleeps |-> <<>>,
                          how |-> "noaddress"]
        ELSE IF r.raised THEN [events |-> <<>>, requests |-> r.requests,
                               sleeps |-> r.sleeps, how |-> "raised"]
        ELSE IF r.data.kind = "ok1"
        THEN [events |-> ParseAll(r.data.logs), requests |-> r.requests,
              sleeps |-> r.sleeps, how |-> "status1"]
        ELSE [events |-> <<>>, requests |-> r.requests, sleeps |-> r.sleeps,
              how |-> IF r.data.kind = "ratelimit" THEN "ratelimited"
                      ELSE "status0"]

(***************************************************************************)
(* utils/gist_validator.py                                                 *)
(*                                                                         *)
(* A claim document is the parsed JSON object: present is the set of its   *)
(* keys, the other fields are their values.  A signature is a string of    *)
(* len characters, with or without the 0x prefix; when it is a well formed *)
(* signature it was made by the key of address signer over message msg.    *)
(***************************************************************************)
RequiredFields == <<"message", "signature", "address", "github_username",
                    "timestamp">>
HexDigits == {"0","1","2","3","4","5","6","7","8","9",
              "a","b","c","d","e","f","A","B","C","D","E","F"}
AddressHexes == {"a1", "b2", "ff"}
SignatureLength == 132
MaxAgeHours == 24
SecondsPerHour == 3600
FutureTolerance == 300

Sig(signer, msg, len, prefix) ==
    [signer |-> signer, msg |-> msg, len |-> len, prefix |-> prefix]

\* _extract_gist_id: the second path segment of a gist.github.com URL, when
\* it matches ^[a-fA-F0-9]+$.
ExtractGistId(url) ==
    IF url.netloc # "gist.github.com" THEN [ok |-> FALSE, id |-> <<>>]
    ELSE IF Len(url.path) < 2 THEN [ok |-> FALSE, id |-> <<>>]
    ELSE LET gist_id == url.path[2]
         IN  IF Len(gist_id) >= 1
                /\ \A i \in 1..Len(gist_id) : gist_id[i] \in HexDigits
             THEN [ok |-> TRUE, id |-> gist_id]
             ELSE [ok |-> FALSE, id |-> <<>>]

\* _fetch_gist_content: what the gist host answers for the gist id: kind
\* "error" (the request raises), "nofile" (no file name matches), "badjson"
\* (json.loads raises) or "doc" (the parsed document).  Everything but a
\* document becomes None.
FetchGistContent(resp) ==
    IF resp.kind = "doc" THEN [ok |-> TRUE, doc |-> resp.doc]
    ELSE [ok |-> FALSE, doc |-> resp.doc]

\* Python truthiness of the value of a field.
Falsy(doc, f) ==
    CASE f = "message" -> doc.message = ""
      [] f = "signature" -> doc.signature.len = 0
      [] f = "address" -> doc.address.hex = ""
      [] f = "github_username" -> doc.github_username = ""
      [] f = "timestamp" -> doc.timestamp = 0

\* Web3.is_address: 40 hex digits, all of one case or in valid checksum case.
IsAddress(a) == a.hex \in AddressHexes /\ a.style \in {"lower", "checksum"}

ValidateJsonStructureSkippingAddress(doc) ==
    /\ \A i \in 1..Len(RequiredFields) :
          RequiredFields[i] \in doc.present /\ ~Falsy(doc, RequiredFields[i])
    /\ doc.signature.prefix
    /\ doc.signature.len = SignatureLength

ValidateJsonStructureAnyLength(doc) ==
    /\ \A i \in 1..Len(RequiredFields) :
          RequiredFields[i] \in doc.present /\ ~Falsy(doc, RequiredFields[i])
    /\ IsAddress(doc.address)
    /\ doc.signature.prefix
    /\ doc.signature.len >= SignatureLength

\* _validate_json_structure
ValidateJsonStructure(doc) ==
    /\ \A i \in 1..Len(RequiredFields) :
          RequiredFields[i] \in doc.present /\ ~Falsy(doc, RequiredFields[i])
    /\ IsAddress(doc.address)
    /\ doc.signature.prefix
    /\ doc.signature.len = SignatureLength

\* Account.recover_message(encode_defunct(text=message), signature): raises
\* on a signature that is not 65 bytes of hex; otherwise the checksum address
\* of the key that signed, when the signature is over this message, and an
\* unrelated address when it is over another message.
RecoverMessage(message, signature) ==
    IF signature.len # SignatureLength
    THEN [raised |-> TRUE, address |-> Addr("", "lower")]
    ELSE IF signature.msg = message
    THEN [raised |-> FALSE, address |-> Addr(signature.signer, "checksum")]
    ELSE [raised |-> FALSE, address |-> Addr("ff", "checksum")]

ValidateSignatureOfAnySigner(doc) ==
    ~RecoverMessage(doc.message, doc.signature).raised

\* _validate_signature
ValidateSignature(doc) ==
    LET r == RecoverMessage(doc.message, doc.signature)
    IN  IF r.raised THEN FALSE
        ELSE Lower(r.address) = Lower(doc.address)

ValidateTimestampRejectingTheLimit(doc, now) ==
    LET max_age_seconds == MaxAgeHours * SecondsPerHour
    IN  IF now - doc.timestamp >= max_age_seconds THEN FALSE
        ELSE IF doc.timestamp > now + FutureTolerance THEN FALSE
        ELSE TRUE

\* _validate_timestamp with max_age_hours = 24
ValidateTimestamp(doc, now) ==
    LET max_age_seconds == MaxAgeHours * SecondsPerHour
    IN  IF now - doc.timestamp > max_age_seconds THEN FALSE
        ELSE IF doc.timestamp > now + FutureTolerance THEN FALSE
        ELSE TRUE

\* fetch_and_validate_gist: the document, or None (ok = FALSE) with the gate
\* that rejected it.
FetchAndValidateGist(gist_url, resp, now) ==
    LET g == ExtractGistId(gist_url)
        c == FetchGistContent(resp)
    IN  IF ~g.ok THEN [ok |-> FALSE, doc |-> resp.doc, gate |-> "url"]
        ELSE IF ~c.ok THEN [ok |-> FALSE, doc |-> resp.doc, gate |-> "fetch"]
        ELSE IF ~ValidateJsonStructure(c.doc)
        THEN [ok |-> FALSE, doc |-> c.doc, gate |-> "structure"]
        ELSE IF ~ValidateSignature(c.doc)
        THEN [ok |-> FALSE, doc |-> c.doc, gate |-> "signature"]
        ELSE IF ~ValidateTimestamp(c.doc, now)
        THEN [ok |-> FALSE, doc |-> c.doc, gate |-> "timestamp"]
        ELSE [ok |-> TRUE, doc |-> c.doc, gate |-> "none"]

\* What fetch_and_validate_gist hands to its caller: the document (line 54),
\* or None, from every one of the returns of lines 35, 40, 44, 48, 52 and 58.
None == [isNone |-> TRUE]
Returned(v) == IF v.ok THEN [isNone |-> FALSE, doc |-> v.doc] ELSE None

\* _recover_address_from_signature: None (ok = FALSE) when recovery raises.
RecoverAddressFromSignature(doc) ==
    LET r == RecoverMessage(doc.message, doc.signature)
    IN  [ok |-> ~r.raised, address |-> r.address]

VerifyIgnoringSubmitter(gist_data, submitter_address) ==
    RecoverAddressFromSignature(gist_data).ok

\* verify_signature_matches_address
VerifySignatureMatchesAddress(gist_data, submitter_address) ==
    LET r == RecoverAddressFromSignature(gist_data)
    IN  r.ok /\ Lower(r.address) = Lower(submitter_address)

(***************************************************************************)
(* utils/contract.py                                                       *)
(***************************************************************************)
RegistryAddress == "0x00000000000000000000000000000000000000a7"

\* What deployments/<network>.json offers: no readable file, or the deployed
\* AttestationRegistry.
Deployments ==
    {[loaded |-> FALSE, registry |-> ZeroAddress],
     [loaded |-> TRUE, registry |-> RegistryAddress]}

\* _load_contract_info: attestation_registry_address after __init__; any
\* failure to load sets the placeholder of _set_placeholder_values.
LoadContractInfo(deployment) ==
    IF deployment.loaded THEN deployment.registry ELSE ZeroAddress

CreateAttestationUnguarded(registry, eth_address, github_username, gist_data, chain) ==
    LET tx == [to |-> registry,
               ethAddress |-> eth_address,
               githubUsername |-> github_username,
               gistUrl |-> IF "gist_url" \in gist_data.present
                           THEN gist_data.gist_url ELSE UnknownUrl]
    IN  IF chain = "builderror"
        THEN [success |-> FALSE, sent |-> FALSE, tx |-> tx]
        ELSE [success |-> (chain = "status1"), sent |-> TRUE, tx |-> tx]

CreateAttestationIgnoringReceipt(registry, eth_address, github_username, gist_data, chain) ==
    LET tx == [to |-> registry,
               ethAddress |-> eth_address,
               githubUsername |-> github_username,
               gistUrl |-> IF "gist_url" \in gist_data.present
                           THEN gist_data.gist_url ELSE UnknownUrl]
    IN  IF registry = ZeroAddress
        THEN [success |-> FALSE, sent |-> FALSE, tx |-> tx]
        ELSE IF chain = "builderror"
        THEN [success |-> FALSE, sent |-> FALSE, tx |-> tx]
        ELSE [success |-> TRUE, sent |-> TRUE, tx |-> tx]

\* create_attestation.  chain is what the node does with the transaction:
\* "builderror" (building, signing or sending raises: nothing is broadcast),
\* "status1", "status0" (the receipt's status) or "timeout" (broadcast, no
\* receipt within the timeout).
CreateAttestation(registry, eth_address, github_username, gist_data, chain) ==
    LET tx == [to |-> registry,
               ethAddress |-> eth_address,
               githubUsername |-> github_username,
               gistUrl |-> IF "gist_url" \in gist_data.present
                           THEN gist_data.gist_url ELSE UnknownUrl]
    IN  IF registry = ZeroAddress
        THEN [success |-> FALSE, sent |-> FALSE, tx |-> tx]
        ELSE IF chain = "builderror"
        THEN [success |-> FALSE, sent |-> FALSE, tx |-> tx]
        ELSE [success |-> (chain = "status1"), sent |-> TRUE, tx |-> tx]

(***************************************************************************)
(* process_attestations.py                                                 *)
(***************************************************************************)
\* process_single_event.  Every exception is caught inside, so it never
\* raises.  called: create_attestation was called.
ProcessSingleEvent(event, resp, now, registry, chain) ==
    LET v == FetchAndValidateGist(event.gist_url, resp, now)
        c == CreateAttestation(registry, v.doc.address,
                               v.doc.github_username, v.doc, chain)
        no == [raised |-> FALSE, success |-> FALSE, called |-> FALSE,
               sent |-> FALSE, tx |-> c.tx]
    IN  IF ~v.ok THEN no
        ELSE IF ~VerifySignatureMatchesAddress(v.doc, event.submitter) THEN no
        ELSE [raised |-> FALSE, success |-> c.success, called |-> TRUE,
              sent |-> c.sent, tx |-> c.tx]

TallyDroppingFailures(result, processed, failed) ==
    IF ~result.raised /\ result.success
    THEN [processed |-> processed + 1, failed |-> failed]
    ELSE [processed |-> processed, failed |-> failed]

\* main, lines 72-82: one turn of the loop over the events.
Tally(result, processed, failed) ==
    IF result.raised THEN [processed |-> processed, failed |-> failed + 1]
    ELSE IF result.success
    THEN [processed |-> processed + 1, failed |-> failed]
    ELSE [processed |-> processed, failed |-> failed + 1]

AdvanceOnlyWhenClean(last, current, failed) ==
    IF failed > 0 THEN last ELSE current

\* main, lines 64 and 85: the block handed to update_last_processed_block.
AdvanceTarget(last, current, failed) == current

\* main, lines 89-91: what the handler of main does with an exception.
MainOnException == "exit1"

(***************************************************************************)
(* The environment: what the chain node, the log API, the gist host and    *)
(* the file system can answer.                                             *)
(***************************************************************************)
SubmissionAddress == "0x00000000000000000000000000000000000000b5"
Now0 == 2 * MaxAgeHours * SecondsPerHour

\* The chain heads the node may report for a network: around the network's
\* default starting block, below it included.
Heads(n) ==
    (GetDefaultStartingBlock(n) - 1)..(GetDefaultStartingBlock(n) + MaxHeadDelta)

InjectiveSeqs(S, k) ==
    {q \in UNION {[1..m -> S] : m \in 0..k} :
        \A i, j \in DOMAIN q : i # j => q[i] # q[j]}

\* The log records the API may list for the range [from, to].
UpstreamLogs(from, to) ==
    IF from > to THEN {}
    ELSE {[wellformed |-> TRUE, topics1 |-> Addr("a1", "lower"),
           data |-> GoodUrl, timeStamp |-> Hex(Now0),
           transactionHash |-> "0xt1", blockNumber |-> Hex(from)],
          [wellformed |-> TRUE, topics1 |-> Addr("b2", "lower"),
           data |-> GoodUrl, timeStamp |-> Hex(Now0),
           transactionHash |-> "0xt2", blockNumber |-> Hex(to)],
          [wellformed |-> FALSE, topics1 |-> Addr("a1", "lower"),
           data |-> GoodUrl, timeStamp |-> Hex(Now0),
           transactionHash |-> "0xt3", blockNumber |-> Hex(to)]}

AttemptKinds == {"error", "ratelimit", "ok1", "ok0"}

AllFields == {"message", "signature", "address", "github_username",
              "timestamp"}

Doc(P, s, m, l, h, st, u, t) ==
    [present |-> P, message |-> "m1", signature |-> Sig(s, m, l, TRUE),
     address |-> Addr(h, st), github_username |-> u, timestamp |-> t,
     gist_url |-> GoodUrl]

\* The claim documents a gist may hold: every pairing of signer, signed
\* message and claimed address, and documents failing one other gate each.
\* The documents claiming b2 write the address in checksum case, the others
\* in lower case.
Docs ==
    {Doc(AllFields, s, m, SignatureLength, h,
         IF h = "b2" THEN "checksum" ELSE "lower", "alice", Now0) :
        s \in {"a1", "b2"}, m \in {"m1", "m2"}, h \in {"a1", "b2"}}
    \cup {Doc(AllFields, "a1", "m1", SignatureLength - 1, "a1", "lower", "alice", Now0),
          Doc(AllFields, "a1", "m1", SignatureLength, "a1", "lower", "", Now0),
          Doc(AllFields \ {"timestamp"}, "a1", "m1", SignatureLength, "a1", "lower", "alice", Now0),
          Doc(AllFields, "a1", "m1", SignatureLength, "a1", "lower", "alice",
              Now0 - MaxAgeHours * SecondsPerHour - 1)}

DummyDoc == Doc({}, "a1", "m1", 0, "", "lower", "", 0)

GistResponses ==
    {[kind |-> k, doc |-> DummyDoc] : k \in {"error", "nofile", "badjson"}}
    \cup {[kind |-> "doc", doc |-> d] : d \in Docs}

ChainOutcomes == {"builderror", "status1", "status0", "timeout"}

\* The gist host is asked only for a URL that passes _extract_gist_id, and
\* the node only when create_attestation is reached.
ResponsesFor(url) ==
    IF ExtractGistId(url).ok THEN GistResponses
    ELSE {[kind |-> "error", doc |-> DummyDoc]}
\* deployments/<network>.json is read only when process_single_event builds
\* the AttestationContract (line 124), after both checks passed.
DeploymentsFor(event, resp, now) ==
    IF ProcessSingleEvent(event, resp, now, RegistryAddress, "status1").called
    THEN Deployments ELSE {[loaded |-> FALSE, registry |-> ZeroAddress]}
ChainOutcomesFor(event, resp, now, registry) ==
    IF ProcessSingleEvent(event, resp, now, registry, "status1").sent
    THEN ChainOutcomes ELSE {"builderror"}

\* The gist URL the submission of an event emitted on chain (the data of its
\* log), and what the gist at that URL holds: what the validator was
\* answered, when that is the URL it asked for.
EmittedUrl(event) == GoodUrl
HeldAt(event, resp) ==
    IF event.gist_url = EmittedUrl(event) THEN {resp} ELSE GistResponses

\* The event lists a stubbed event source hands to main: the first m of a
\* row of events with valid gist URLs, submitted by a1 and b2 in turn.
TxHashes == <<"0xt1", "0xt2", "0xt3", "0xt4">>
StubEvent(i, block) ==
    [submitter |-> Addr(IF i % 2 = 1 THEN "a1" ELSE "b2", "lower"),
     gist_url |-> GoodUrl, timestamp |-> Now0,
     transactionHash |-> TxHashes[i], blockNumber |-> block]
StubEventLists(block) ==
    {[i \in 1..m |-> StubEvent(i, block)] : m \in 0..MaxLogs}

(***************************************************************************)
(* State.                                                                  *)
(***************************************************************************)
VARIABLES
    stateFile,        \* the state directory: file name -> content
    addresses,        \* BasescanClient's table of contract addresses
    pc,               \* where the running invocation is; "idle": none runs
    runs,             \* invocations started so far
    network,          \* NETWORK of the invocation / self.network
    last_block,       \* main's last_block
    current_block,    \* main's current_block / update's block_number
    events,           \* main's events
    idx,              \* position of the loop over events
    processed_count,
    failed_count,
    data,             \* update_last_processed_block's data
    exit,             \* "none", "running", "exit0", "exit1" or "killed"
    reported,         \* "Processing complete" was printed
    fetch,            \* what the last event query did
    txs,              \* the transactions this invocation broadcast
    handled,          \* transaction hashes of the events handled, in order
    got,              \* the last call of get_last_processed_block
    startFile,        \* the network's state file when the invocation began
    upd,              \* the last update: "none", "ok" or "failed"
    lastSet,          \* network -> block of its last completed update, -1
                      \* from the start of the next one
    lastCall,         \* the last call of process_single_event
    config,           \* "none", or how the last invocation found its
                      \* required environment: "ok" or "missing"
    failing,          \* the events that failed so far in this invocation
    retired,          \* the events that failed in an invocation whose
                      \* checkpoint then advanced to or past their block
    probe,            \* the last call of fetch_and_validate_gist made on
                      \* its own, and its repetition at another moment
    inv,              \* two invocations of main running side by side:
                      \* invocation -> where it is and what it holds
    chainHead,        \* the height of the chains, counted from the default
                      \* starting block of each network
    persisted,        \* network -> highest block a completed update of one
                      \* of the two invocations wrote, -1 when none did
    overlap,          \* the networks two invocations ran on at the same time
    interrupted       \* what the last invocation that was killed after it
                      \* read its checkpoint and before its update held

vars == <<stateFile, addresses, pc, runs, network, last_block, current_block,
          events, idx, processed_count, failed_count, data, exit, reported,
          fetch, txs, handled, got, startFile, upd, lastSet, lastCall,
          config, failing, retired, probe, inv, chainHead, persisted,
          overlap, interrupted>>

\* What main, run one invocation at a time, and the store leave alone.
aside == <<probe, inv, chainHead, persisted, overlap, interrupted>>

NoFetch == [how |-> "none", requests |-> 0, sleeps |-> <<>>, kinds |-> <<>>,
            from_block |-> 0, to_block |-> 0]
NoGot == [valid |-> FALSE, network |-> "sepolia", file |-> Absent,
          raised |-> FALSE, ret |-> 0]
NoCall == [valid |-> FALSE, called |-> FALSE, accepted |-> FALSE,
           sent |-> FALSE, success |-> FALSE, signerIsClaimed |-> FALSE,
           signerIsSubmitter |-> FALSE, literalDiffers |-> FALSE,
           claimValid |-> FALSE, placeholder |-> FALSE, chain |-> "none"]
NoData == DictSet(DictSet(EmptyDict, "last_processed_block", 0),
                  "network", "sepolia")

NoProbe == [valid |-> FALSE, url |-> GoodUrl,
            resp |-> [kind |-> "error", doc |-> DummyDoc], now |-> 0,
            ok |-> FALSE, gate |-> "none", structure |-> FALSE,
            again |-> [valid |-> FALSE, now |-> 0, ok |-> FALSE,
                       gate |-> "none"]]
NoInterrupted == [run |-> 0, network |-> "sepolia", file |-> Absent,
                  last_block |-> 0, from_block |-> 0, to_block |-> 0,
                  attested |-> {}]
Invocations == {1, 2}
NoInvocation == [pc |-> "idle", runs |-> 0, network |-> "sepolia",
                 last_block |-> 0, current_block |-> 0, data |-> NoData]

\* The state before the first invocation: no state file yet.  The entries of
\* BasescanClient's address table are the zero placeholder in the source as
\* it stands, and the GistSubmission address once a deployment has filled
\* them in; the same holds for every network.
NothingRan ==
    /\ pc = "idle"
    /\ runs = 0
    /\ network = "sepolia"
    /\ last_block = 0
    /\ current_block = 0
    /\ events = <<>>
    /\ idx = 1
    /\ processed_count = 0
    /\ failed_count = 0
    /\ data = NoData
    /\ exit = "none"
    /\ reported = FALSE
    /\ fetch = NoFetch
    /\ txs = <<>>
    /\ handled = <<>>
    /\ got = NoGot
    /\ startFile = Absent
    /\ upd = "none"
    /\ lastSet = [n \in Networks |-> -1]
    /\ lastCall = NoCall
    /\ config = "none"
    /\ failing = {}
    /\ retired = {}
    /\ probe = NoProbe
    /\ inv = [i \in Invocations |-> NoInvocation]
    /\ chainHead = -1
    /\ persisted = [n \in Networks |-> -1]
    /\ overlap = {}
    /\ interrupted = NoInterrupted

Init ==
    /\ stateFile = [f \in StateFiles |-> Absent]
    /\ addresses \in {[n \in KnownNetworks |-> a] :
                         a \in {ZeroAddress, SubmissionAddress}}
    /\ NothingRan

\* What an invocation starts from: nothing is kept in memory across runs.
FreshRun ==
    /\ last_block' = 0
    /\ current_block' = 0
    /\ events' = <<>>
    /\ idx' = 1
    /\ processed_count' = 0
    /\ failed_count' = 0
    /\ data' = NoData
    /\ reported' = FALSE
    /\ fetch' = NoFetch
    /\ txs' = <<>>
    /\ handled' = <<>>
    /\ got' = NoGot
    /\ upd' = "none"
    /\ lastCall' = NoCall
    /\ failing' = {}

StartupWithoutCheck(configured, n) ==
    IF n \notin KnownNetworks THEN "idle" ELSE "read"

\* main, lines 32-50: where main is after it read the environment and built
\* its clients.  A missing required variable raises ValueError at line 41, a
\* network BasescanClient does not know raises ValueError at line 48: both
\* end in main's handler before the StateManager is built.
Startup(configured, n) ==
    IF ~configured THEN "idle"
    ELSE IF n \notin KnownNetworks THEN "idle"
    ELSE "read"

\* main, lines 32-50: the environment is read and the clients are built.
Begin ==
    /\ pc = "idle"
    /\ runs < MaxRuns
    /\ \E n \in Networks, configured \in BOOLEAN :
          /\ network' = n
          /\ startFile' = stateFile[StateFileName(n)]
          /\ config' = IF configured THEN "ok" ELSE "missing"
          /\ pc' = Startup(configured, n)
          /\ exit' = IF Startup(configured, n) = "idle"
                     THEN MainOnException ELSE "running"
    /\ runs' = runs + 1
    /\ FreshRun
    /\ UNCHANGED <<stateFile, addresses, retired, lastSet>>

StartRun == Begin /\ UNCHANGED aside

\* main, line 53
ReadCheckpoint ==
    /\ pc = "read"
    /\ LET f == stateFile[StateFileName(network)]
           r == GetLastProcessedBlock(f, network)
       IN  /\ last_block' = r.ret
           /\ got' = [valid |-> TRUE, network |-> network, file |-> f,
                      raised |-> r.raised, ret |-> r.ret]
    /\ pc' = "head"
    /\ UNCHANGED <<stateFile, addresses, aside, config, failing, retired,
                   runs, network, current_block, events,
                   idx, processed_count, failed_count, data, exit, reported,
                   fetch, txs, handled, startFile, upd, lastSet, lastCall>>

\* main, line 54: w3.eth.block_number answers a head, or raises.
QueryHead ==
    /\ pc = "head"
    /\ \E answered \in BOOLEAN :
          IF answered
          THEN /\ \E h \in Heads(network) : current_block' = h
               /\ pc' = "fetch"
               /\ exit' = exit
          ELSE /\ current_block' = current_block
               /\ pc' = "idle"
               /\ exit' = MainOnException
    /\ UNCHANGED <<stateFile, addresses, aside, config, failing, retired,
                   runs, network, last_block, events,
                   idx, processed_count, failed_count, data, reported, fetch,
                   txs, handled, got, startFile, upd, lastSet, lastCall>>

AfterFetchSkippingBatch(evs) == "upd_load"

\* Where main goes with the events it got: lines 62-65 on an empty list, the
\* loop of lines 71-82 otherwise.
AfterFetch(evs) == IF evs = <<>> THEN "upd_load" ELSE "loop"

\* main, line 59: the arguments of get_gist_submission_events, which lines
\* 52-60 of basescan.py send as fromBlock and toBlock.
EventQueryRangeFromHead(last, current) ==
    [from_block |-> current, to_block |-> current]

EventQueryRange(last, current) == [from_block |-> last, to_block |-> current]
QueryParams(range) ==
    [fromBlock |-> Hex(range.from_block), toBlock |-> Hex(range.to_block)]

\* main, line 59: basescan.get_gist_submission_events(last_block, current_block)
FetchEvents ==
    /\ pc = "fetch"
    /\ \E kinds \in [1..MaxAttempts -> AttemptKinds],
          logs \in InjectiveSeqs(
                      UpstreamLogs(IntOfHex(QueryParams(EventQueryRange(
                                       last_block, current_block)).fromBlock),
                                   IntOfHex(QueryParams(EventQueryRange(
                                       last_block, current_block)).toBlock)),
                      MaxLogs) :
          LET range == EventQueryRange(last_block, current_block)
              outs == [a \in 1..MaxAttempts |->
                          [kind |-> kinds[a],
                           logs |-> IF kinds[a] = "ok1" THEN logs ELSE <<>>]]
              r == GetGistSubmissionEvents(addresses, network, outs)
          IN  /\ events' = r.events
              /\ fetch' = [how |-> r.how, requests |-> r.requests,
                           sleeps |-> r.sleeps,
                           kinds |-> SubSeq(kinds, 1, r.requests),
                           from_block |-> range.from_block,
                           to_block |-> range.to_block]
              /\ pc' = AfterFetch(r.events)
    /\ UNCHANGED <<stateFile, addresses, aside, config, failing, retired,
                   runs, network, last_block,
                   current_block, idx, processed_count, failed_count, data,
                   exit, reported, txs, handled, got, startFile, upd, lastSet,
                   lastCall>>

\* main with a stubbed event source: line 59 returns a list of events.
Stubbed ==
    /\ pc = "fetch"
    /\ \E evs \in StubEventLists(current_block) :
          /\ events' = evs
          /\ pc' = AfterFetch(evs)
    /\ fetch' = [how |-> "status1", requests |-> 1, sleeps |-> <<>>,
                 kinds |-> <<"ok1">>,
                 from_block |-> EventQueryRange(last_block, current_block).from_block,
                 to_block |-> EventQueryRange(last_block, current_block).to_block]
    /\ UNCHANGED <<stateFile, addresses, config, failing, retired,
                   runs, network, last_block,
                   current_block, idx, processed_count, failed_count, data,
                   exit, reported, txs, handled, got, startFile, upd, lastSet,
                   lastCall>>

StubFetch == Stubbed /\ UNCHANGED aside

\* main, lines 71-82: one turn of the loop, process_single_event included.
\* lastCall records what the call met: whether the signer of the document's
\* signature is the claimed address and is the event's submitter (the same
\* 40 hex digits, whatever the letter case).
ProcessEvent ==
    /\ pc = "loop"
    /\ \E resp \in ResponsesFor(events[idx].gist_url) :
       \E deployment \in DeploymentsFor(events[idx], resp, Now0) :
       \E chain \in ChainOutcomesFor(events[idx], resp, Now0,
                                     LoadContractInfo(deployment)),
          held \in HeldAt(events[idx], resp) :
          LET event == events[idx]
              registry == LoadContractInfo(deployment)
              r == ProcessSingleEvent(event, resp, Now0, registry, chain)
              t == Tally(r, processed_count, failed_count)
              v == FetchAndValidateGist(event.gist_url, resp, Now0)
              rec == RecoverMessage(resp.doc.message, resp.doc.signature)
              signed == resp.kind = "doc" /\ ~rec.raised
          IN  /\ processed_count' = t.processed
              /\ failed_count' = t.failed
              /\ txs' = IF r.sent THEN Append(txs, r.tx) ELSE txs
              /\ handled' = Append(handled, event.transactionHash)
              /\ lastCall' =
                    [valid |-> TRUE, called |-> r.called, accepted |-> v.ok,
                     sent |-> r.sent, success |-> r.success,
                     signerIsClaimed |->
                        signed /\ rec.address.hex = resp.doc.address.hex,
                     signerIsSubmitter |->
                        signed /\ rec.address.hex = event.submitter.hex,
                     literalDiffers |->
                        signed /\ rec.address # event.submitter,
                     claimValid |->
                        /\ FetchAndValidateGist(EmittedUrl(event), held, Now0).ok
                        /\ VerifySignatureMatchesAddress(held.doc, event.submitter),
                     placeholder |-> r.called /\ registry = ZeroAddress,
                     chain |-> IF r.called THEN chain ELSE "none"]
              /\ failing' = IF r.success THEN failing
                            ELSE failing \cup
                                 {[network |-> network,
                                   transactionHash |-> event.transactionHash,
                                   blockNumber |-> event.blockNumber]}
    /\ idx' = idx + 1
    /\ pc' = IF idx = Len(events) THEN "upd_load" ELSE "loop"
    /\ UNCHANGED <<stateFile, addresses, aside, config, retired, runs, network,
                   last_block, current_block, events, data, exit, reported,
                   fetch, got, startFile, upd, lastSet>>

\* An exception inside update_last_processed_block: lines 50-52 re-raise it
\* and main's handler (lines 89-91) exits with status 1.  Were it swallowed,
\* the caller would go on as after a return.
UpdateFails ==
    /\ upd' = "failed"
    /\ pc' = "idle"
    /\ IF UpdateOnError = "raise"
       THEN exit' = MainOnException /\ reported' = FALSE
       ELSE exit' = "exit0" /\ reported' = (events # <<>>)

\* update_last_processed_block, lines 38-45
UpdLoad ==
    /\ pc = "upd_load"
    /\ LET r == UpdateLoad(stateFile[StateFileName(network)], network,
                           AdvanceTarget(last_block, current_block,
                                         failed_count))
       IN  IF r.raised
           THEN UpdateFails /\ data' = data
           ELSE /\ data' = r.data
                /\ pc' = "upd_open"
                /\ UNCHANGED <<upd, exit, reported>>
    /\ lastSet' = [lastSet EXCEPT ![network] = -1]
    /\ UNCHANGED <<stateFile, addresses, aside, config, failing, retired,
                   runs, network, last_block,
                   current_block, events, idx, processed_count, failed_count,
                   fetch, txs, handled, got, startFile, lastCall>>

\* update_last_processed_block, line 47: open(self.state_file, 'w') creates
\* or truncates the file, or raises and leaves it as it was.
UpdOpen ==
    /\ pc = "upd_open"
    /\ \E opened \in BOOLEAN :
          IF opened
          THEN /\ stateFile' = [stateFile EXCEPT ![StateFileName(network)] = Corrupt]
               /\ pc' = "upd_dump"
               /\ UNCHANGED <<upd, exit, reported>>
          ELSE UpdateFails /\ stateFile' = stateFile
    /\ UNCHANGED <<addresses, aside, config, failing, retired,
                   runs, network, last_block, current_block, events,
                   idx, processed_count, failed_count, data, fetch, txs,
                   handled, got, startFile, lastSet, lastCall>>

\* update_last_processed_block, line 48: json.dump writes the object and the
\* file is closed, or the write raises and leaves what it had written.
\* A return is followed by main's return (line 65) or by the report of line
\* 87: either way the process exits with status 0.
Dump ==
    /\ pc = "upd_dump"
    /\ \E written \in BOOLEAN :
          IF written
          THEN /\ stateFile' = [stateFile EXCEPT ![StateFileName(network)] = Json(data)]
               /\ lastSet' = [lastSet EXCEPT ![network] =
                                 AdvanceTarget(last_block, current_block,
                                               failed_count)]
               /\ upd' = "ok"
               /\ pc' = "idle"
               /\ exit' = "exit0"
               /\ reported' = (events # <<>>)
          ELSE UpdateFails /\ stateFile' = stateFile /\ lastSet' = lastSet
    /\ UNCHANGED <<addresses, aside, config, failing,
                   runs, network, last_block, current_block, events,
                   idx, processed_count, failed_count, data, fetch, txs,
                   handled, got, startFile, lastCall>>

UpdDump == Dump /\ retired' = retired

\* The same step, with the record of the events it leaves behind: those that
\* failed in this invocation, at or below the block the checkpoint now holds.
UpdDumpRecording ==
    /\ Dump
    /\ retired' = IF upd' = "ok"
                  THEN retired \cup
                       {e \in failing :
                           e.blockNumber <= AdvanceTarget(last_block,
                                                current_block, failed_count)}
                  ELSE retired

\* The process is killed: nothing of main runs any more and what it held in
\* memory is gone.  The state files and the transactions it broadcast stay.
Die ==
    /\ pc # "idle"
    /\ pc' = "idle"
    /\ exit' = "killed"
    /\ last_block' = 0
    /\ current_block' = 0
    /\ events' = <<>>
    /\ idx' = 1
    /\ processed_count' = 0
    /\ failed_count' = 0
    /\ data' = NoData
    /\ got' = NoGot
    /\ fetch' = NoFetch
    /\ handled' = <<>>
    /\ lastCall' = NoCall
    /\ failing' = {}
    /\ UNCHANGED <<stateFile, addresses, config, retired, runs, network,
                   reported, txs, startFile, upd, lastSet>>

Kill == Die /\ UNCHANGED aside

\* The same step, with the record of what the invocation held when it died
\* in its event query or in its batch (lines 59-82, pc "fetch" or "loop"):
\* the state file, the checkpoint it read, the range of its event query and
\* the blocks of that range whose events it had attested.
KillRecording ==
    /\ Die
    /\ interrupted' =
          IF pc \in {"fetch", "loop"}
          THEN [run |-> runs, network |-> network,
                file |-> stateFile[StateFileName(network)],
                last_block |-> last_block,
                from_block |-> EventQueryRange(last_block,
                                               current_block).from_block,
                to_block |-> EventQueryRange(last_block,
                                             current_block).to_block,
                attested |-> IF processed_count > 0
                             THEN {events[j].blockNumber : j \in 1..(idx - 1)}
                                  \cap (last_block..current_block)
                             ELSE {}]
          ELSE NoInterrupted
    /\ UNCHANGED <<probe, inv, chainHead, persisted, overlap>>

\* The start of an invocation, which keeps the record when it is the first
\* one after the interrupted one and works on the same network, and the
\* stubbed event query, after which the record is of no use any more.
StartRunResuming ==
    /\ Begin
    /\ interrupted' = IF /\ interrupted.run = runs
                         /\ network' = interrupted.network
                         /\ pc' = "read"
                      THEN interrupted ELSE NoInterrupted
    /\ UNCHANGED <<probe, inv, chainHead, persisted, overlap>>

StubFetchResuming ==
    /\ Stubbed
    /\ interrupted' = NoInterrupted
    /\ UNCHANGED <<probe, inv, chainHead, persisted, overlap>>

\* The store on its own, as tests/test_state_manager.py drives it: a
\* StateManager of any network is built and asked for its block, or told a
\* block.
StoreBlocks == Heads("sepolia")

StoreGet ==
    /\ pc = "idle"
    /\ \E n \in Networks :
          LET f == stateFile[StateFileName(n)]
              r == GetLastProcessedBlock(f, n)
          IN  got' = [valid |-> TRUE, network |-> n, file |-> f,
                      raised |-> r.raised, ret |-> r.ret]
    /\ UNCHANGED <<stateFile, addresses, aside, config, failing, retired,
                   pc, runs, network, last_block,
                   current_block, events, idx, processed_count, failed_count,
                   data, exit, reported, fetch, txs, handled, startFile, upd,
                   lastSet, lastCall>>

StoreSet ==
    /\ pc = "idle"
    /\ \E n \in Networks, b \in StoreBlocks :
          /\ network' = n
          /\ current_block' = b
    /\ pc' = "upd_load"
    /\ exit' = "running"
    /\ upd' = "none"
    /\ got' = NoGot
    /\ UNCHANGED <<stateFile, addresses, aside, config, failing, retired,
                   runs, last_block, events, idx,
                   processed_count, failed_count, data, reported, fetch, txs,
                   handled, startFile, lastSet, lastCall>>

Update == UpdLoad \/ UpdOpen \/ UpdDump

\* The program: invocations of main, one at a time.
Next ==
    \/ StartRun \/ ReadCheckpoint \/ QueryHead \/ FetchEvents
    \/ ProcessEvent \/ Update \/ Kill
Spec == Init /\ [][Next]_vars

\* main with the event source stubbed.
NextBatch ==
    \/ StartRun \/ ReadCheckpoint \/ QueryHead \/ StubFetch
    \/ ProcessEvent \/ Update \/ Kill
InitBatch == Init /\ addresses = [n \in KnownNetworks |-> ZeroAddress]
SpecBatch == InitBatch /\ [][NextBatch]_vars

\* The checkpoint store on its own.
NextStore == StoreGet \/ StoreSet \/ Update \/ Kill
SpecStore == InitBatch /\ [][NextStore]_vars

\* The store in a state directory whose files another hand wrote, all alike:
\* objects with a key of their own, with or without the two keys of the
\* store, the network key naming any network.
KeptKey == "note"
FoundFiles ==
    {Absent, Json(DictSet(EmptyDict, KeptKey, "kept"))}
    \cup {Json(DictSet(DictSet(DictSet(EmptyDict, KeptKey, "kept"),
                               "last_processed_block", SepoliaDefault),
                       "network", n)) : n \in KnownNetworks}
InitFound ==
    /\ stateFile \in {[f \in StateFiles |-> found] : found \in FoundFiles}
    /\ addresses = [n \in KnownNetworks |-> ZeroAddress]
    /\ NothingRan

\* update_last_processed_block called on its own; startFile is the file of
\* the manager's network when the call begins.
StoreUpdate ==
    /\ pc = "idle"
    /\ \E n \in Networks, b \in StoreBlocks :
          /\ network' = n
          /\ current_block' = b
          /\ startFile' = stateFile[StateFileName(n)]
    /\ pc' = "upd_load"
    /\ exit' = "running"
    /\ upd' = "none"
    /\ got' = NoGot
    /\ UNCHANGED <<stateFile, addresses, aside, config, failing, retired,
                   runs, last_block, events, idx,
                   processed_count, failed_count, data, reported, fetch, txs,
                   handled, lastSet, lastCall>>

NextFound == StoreUpdate \/ Update
SpecFound == InitFound /\ [][NextFound]_vars

\* The program, with the record of the failed events its checkpoints left
\* behind.
NextRecording ==
    \/ StartRun \/ ReadCheckpoint \/ QueryHead \/ FetchEvents
    \/ ProcessEvent \/ UpdLoad \/ UpdOpen \/ UpdDumpRecording \/ Kill
SpecRecording == Init /\ [][NextRecording]_vars

\* main with the event source stubbed, with the record of the invocation
\* that was killed before its update.
NextResume ==
    \/ StartRunResuming \/ ReadCheckpoint \/ QueryHead \/ StubFetchResuming
    \/ ProcessEvent \/ Update \/ KillRecording
SpecResume == InitBatch /\ [][NextResume]_vars

\* The program, each started invocation going on until it ends: every call
\* main makes returns or raises within its timeout (30 s for the log API, 60 s
\* for the receipt) and the loop over the events is finite.
SpecLive ==
    Spec /\ WF_vars(ReadCheckpoint \/ QueryHead \/ FetchEvents
                     \/ ProcessEvent \/ Update)

(***************************************************************************)
(* The validator on its own: fetch_and_validate_gist is called with a URL, *)
(* the gist host answers, and the clock of the machine says now; then the  *)
(* same call is made again at another moment.                              *)
(***************************************************************************)
OnePartUrl == [netloc |-> "gist.github.com", path |-> << <<"b","o","b">> >>]
ProbeUrls == {GoodUrl, PlaceholderUrl, OnePartUrl}
ProbeNows == {Now0 - 1, Now0, Now0 + 1}
ProbeTimestamps ==
    {Now0, Now0 - MaxAgeHours * SecondsPerHour, Now0 + FutureTolerance}

\* Documents around the one every gate accepts: signatures of every length
\* near the required one, with and without prefix, by either signer; keys
\* missing and added; values empty; an address that is none.
ProbeDocs ==
    {[Doc(P, s, "m1", l, "a1", "lower", "alice", t)
         EXCEPT !.signature.prefix = x] :
        P \in {AllFields, AllFields \cup {"gist_url"}},
        s \in {"a1", "b2"},
        l \in (SignatureLength - 2)..(SignatureLength + 1),
        x \in BOOLEAN,
        t \in ProbeTimestamps}
    \cup {Doc(AllFields \ {f}, "a1", "m1", SignatureLength, "a1", "lower",
              "alice", Now0) : f \in AllFields}
    \cup {Doc(AllFields, "a1", "m1", SignatureLength, h, st, u, t) :
             h \in {"a1", ""}, st \in {"lower", "badcase"},
             u \in {"alice", ""}, t \in {Now0, 0}}
ProbeResponses ==
    {[kind |-> k, doc |-> DummyDoc] : k \in {"error", "nofile", "badjson"}}
    \cup {[kind |-> "doc", doc |-> d] : d \in ProbeDocs}
ProbeResponsesFor(url) ==
    IF ExtractGistId(url).ok THEN ProbeResponses
    ELSE {[kind |-> "error", doc |-> DummyDoc]}

Validate ==
    /\ ~probe.valid
    /\ \E url \in ProbeUrls, now \in ProbeNows :
       \E resp \in ProbeResponsesFor(url) :
          LET v == FetchAndValidateGist(url, resp, now)
          IN  probe' = [valid |-> TRUE, url |-> url, resp |-> resp,
                        now |-> now, ok |-> v.ok, gate |-> v.gate,
                        structure |-> ValidateJsonStructure(resp.doc),
                        again |-> NoProbe.again]
    /\ UNCHANGED <<stateFile, addresses, pc, runs, network, last_block,
                   current_block, events, idx, processed_count, failed_count,
                   data, exit, reported, fetch, txs, handled, got, startFile,
                   upd, lastSet, lastCall, config, failing, retired, inv,
                   chainHead, persisted, overlap, interrupted>>

Revalidate ==
    /\ probe.valid
    /\ ~probe.again.valid
    /\ \E now \in ProbeNows :
          LET v == FetchAndValidateGist(probe.url, probe.resp, now)
          IN  probe' = [probe EXCEPT !.again =
                           [valid |-> TRUE, now |-> now, ok |-> v.ok,
                            gate |-> v.gate]]
    /\ UNCHANGED <<stateFile, addresses, pc, runs, network, last_block,
                   current_block, events, idx, processed_count, failed_count,
                   data, exit, reported, fetch, txs, handled, got, startFile,
                   upd, lastSet, lastCall, config, failing, retired, inv,
                   chainHead, persisted, overlap, interrupted>>

NextValidator == Validate \/ Revalidate
SpecValidator == InitBatch /\ [][NextValidator]_vars

(***************************************************************************)
(* Two invocations of main side by side, as two cron jobs or two workflow  *)
(* runs that overlap: each one goes through main's steps on its own        *)
(* variables; they share the state directory and the chains, whose height  *)
(* only grows.                                                             *)
(***************************************************************************)
solo == <<addresses, pc, runs, network, last_block, current_block, events,
          idx, processed_count, failed_count, data, exit, reported, fetch,
          txs, handled, got, startFile, upd, lastSet, lastCall, config,
          failing, retired, probe, interrupted>>

\* w3.eth.block_number for the chain of network n.
Height(n) == GetDefaultStartingBlock(n) + chainHead

\* An invocation that ended: nothing of what it held is left.
Ended(i) == [NoInvocation EXCEPT !.runs = inv[i].runs]

ChainGrows ==
    /\ chainHead < MaxHeadDelta
    /\ chainHead' = chainHead + 1
    /\ UNCHANGED <<stateFile, solo, inv, persisted, overlap>>

\* main, lines 32-50
PairStart(i) ==
    /\ inv[i].pc = "idle"
    /\ inv[1].runs + inv[2].runs < MaxRuns
    /\ \E n \in Networks, configured \in BOOLEAN :
          /\ inv' = [inv EXCEPT ![i] =
                        [pc |-> Startup(configured, n),
                         runs |-> inv[i].runs + 1,
                         network |-> IF Startup(configured, n) = "idle"
                                     THEN NoInvocation.network ELSE n,
                         last_block |-> 0, current_block |-> 0,
                         data |-> NoData]]
          /\ overlap' =
                IF /\ Startup(configured, n) # "idle"
                   /\ \E j \in Invocations \ {i} :
                         inv[j].pc # "idle" /\ inv[j].network = n
                THEN overlap \cup {n} ELSE overlap
    /\ UNCHANGED <<stateFile, solo, chainHead, persisted>>

\* main, line 53
PairRead(i) ==
    /\ inv[i].pc = "read"
    /\ LET n == inv[i].network
           r == GetLastProcessedBlock(stateFile[StateFileName(n)], n)
       IN  inv' = [inv EXCEPT ![i].last_block = r.ret, ![i].pc = "head"]
    /\ UNCHANGED <<stateFile, solo, chainHead, persisted, overlap>>

\* main, line 54: the node answers the height of the chain, or raises.
PairHead(i) ==
    /\ inv[i].pc = "head"
    /\ \E answered \in BOOLEAN :
          IF answered
          THEN inv' = [inv EXCEPT ![i].current_block = Height(inv[i].network),
                                  ![i].pc = "work"]
          ELSE inv' = [inv EXCEPT ![i] = Ended(i)]
    /\ UNCHANGED <<stateFile, solo, chainHead, persisted, overlap>>

\* main, lines 59-82: the event query and the batch, which touch neither the
\* state file nor the variables an update reads.
PairWork(i) ==
    /\ inv[i].pc = "work"
    /\ inv' = [inv EXCEPT ![i].pc = "upd_load"]
    /\ UNCHANGED <<stateFile, solo, chainHead, persisted, overlap>>

\* update_last_processed_block, lines 38-45; failed is the count the batch
\* ended with.
PairUpdLoad(i) ==
    /\ inv[i].pc = "upd_load"
    /\ \E failed \in 0..MaxLogs :
          LET n == inv[i].network
              r == UpdateLoad(stateFile[StateFileName(n)], n,
                              AdvanceTarget(inv[i].last_block,
                                            inv[i].current_block, failed))
          IN  IF r.raised
              THEN inv' = [inv EXCEPT ![i] = Ended(i)]
              ELSE inv' = [inv EXCEPT ![i].data = r.data,
                                      ![i].pc = "upd_open"]
    /\ UNCHANGED <<stateFile, solo, chainHead, persisted, overlap>>

\* update_last_processed_block, line 47
PairUpdOpen(i) ==
    /\ inv[i].pc = "upd_open"
    /\ \E opened \in BOOLEAN :
          IF opened
          THEN /\ stateFile' = [stateFile EXCEPT
                                  ![StateFileName(inv[i].network)] = Corrupt]
               /\ inv' = [inv EXCEPT ![i].pc = "upd_dump"]
          ELSE /\ stateFile' = stateFile
               /\ inv' = [inv EXCEPT ![i] = Ended(i)]
    /\ UNCHANGED <<solo, chainHead, persisted, overlap>>

\* update_last_processed_block, line 48
PairUpdDump(i) ==
    /\ inv[i].pc = "upd_dump"
    /\ \E written \in BOOLEAN :
          IF written
          THEN LET n == inv[i].network
                   b == DictGet(inv[i].data, "last_processed_block", -1)
               IN  /\ stateFile' = [stateFile EXCEPT ![StateFileName(n)] =
                                       Json(inv[i].data)]
                   /\ persisted' = [persisted EXCEPT ![n] =
                                       IF b > @ THEN b ELSE @]
          ELSE stateFile' = stateFile /\ persisted' = persisted
    /\ inv' = [inv EXCEPT ![i] = Ended(i)]
    /\ UNCHANGED <<solo, chainHead, overlap>>

NextPair ==
    \/ ChainGrows
    \/ \E i \in Invocations :
          \/ PairStart(i) \/ PairRead(i) \/ PairHead(i) \/ PairWork(i)
          \/ PairUpdLoad(i) \/ PairUpdOpen(i) \/ PairUpdDump(i)
SpecPair == InitBatch /\ [][NextPair]_vars

(***************************************************************************)
(* The claims.                                                             *)
(***************************************************************************)
\* The checkpoint a StateManager of network n would read now.
Checkpoint(n) == GetLastProcessedBlock(stateFile[StateFileName(n)], n).ret

RunEnded == pc = "idle" /\ exit \in {"exit0", "exit1"}

\* C1: every successful update_last_processed_block of a run writes a block
\* greater than or equal to the block get_last_processed_block returned to
\* that run.
CheckpointNeverDecreases ==
    (pc = "idle" /\ upd = "ok" /\ got.valid) => Checkpoint(network) >= got.ret

\* C2: a run whose event query failed on all 3 attempts aborts (exit status
\* 1) and leaves the checkpoint file as it found it.  (Runs whose checkpoint
\* write failed are left aside: they end with status 1 for that reason.)
QueryFailedEveryAttempt ==
    /\ Len(fetch.kinds) = MaxAttempts
    /\ \A i \in 1..MaxAttempts : fetch.kinds[i] \in {"error", "ratelimit"}
SourceOutageAborts ==
    (RunEnded /\ QueryFailedEveryAttempt /\ upd # "failed") =>
        (exit = "exit1" /\ stateFile[StateFileName(network)] = startFile)

\* C3, as claimed: a run whose event fetch succeeded ends with the checkpoint
\* equal to the chain head it queried.
FetchedRunEndsAtHead ==
    (RunEnded /\ fetch.how = "status1") => Checkpoint(network) = current_block

\* C3, amended: a run whose event fetch succeeded and that completes (exit
\* status 0) ends with a legible checkpoint equal to the chain head it
\* queried, whatever happened to the events of the batch.
CompletedRunEndsAtHead ==
    (pc = "idle" /\ exit = "exit0" /\ fetch.how = "status1") =>
        /\ stateFile[StateFileName(network)].kind = "json"
        /\ Checkpoint(network) = current_block

\* C3, witness: a completed batch of two events, the first attested, the
\* second with an accepted document whose signer is not its submitter; the
\* checkpoint moved to the head.
MixedBatchEndsAtHead ==
    /\ pc = "idle" /\ exit = "exit0"
    /\ Len(events) = 2 /\ processed_count = 1 /\ failed_count = 1
    /\ lastCall.accepted /\ ~lastCall.signerIsSubmitter
    /\ Checkpoint(network) = current_block
    /\ current_block # last_block

\* C4: the events are handled one by one in the order fetched, each once;
\* the loop is left only after the last event; the two counters add up to
\* the number of events handled.
BatchHandlesEveryEventOnce ==
    /\ idx \in 1..(Len(events) + 1)
    /\ handled = [i \in 1..(idx - 1) |-> events[i].transactionHash]
    /\ processed_count + failed_count = idx - 1
    /\ (pc # "loop") => idx = Len(events) + 1
    /\ (pc = "loop") => idx <= Len(events)

\* C4, witness: a completed batch whose first event was attested and whose
\* second event's transaction was broadcast and failed.
BatchWithWriteFailureCounted ==
    /\ pc = "idle" /\ exit = "exit0"
    /\ handled = <<"0xt1", "0xt2">>
    /\ processed_count = 1 /\ failed_count = 1
    /\ lastCall.sent /\ ~lastCall.success

\* C5: create_attestation is called, and a transaction broadcast, only for
\* an event whose document fetch_and_validate_gist accepted and whose
\* signature's signer is both the claimed address and the event's submitter.
AttestationOnlyAfterBothChecks ==
    (lastCall.called \/ lastCall.sent) =>
        /\ lastCall.accepted
        /\ lastCall.signerIsClaimed
        /\ lastCall.signerIsSubmitter

\* C5, witness: a transaction was broadcast for an event whose submitter is
\* written in another letter case than the recovered signer.
AttestedAcrossLetterCase ==
    /\ lastCall.called /\ lastCall.sent /\ lastCall.success
    /\ lastCall.literalDiffers

\* C6: no step changes the checkpoint of a network other than the one the
\* manager at work is bound to.
SetLeavesOtherNetworks ==
    [][\A n \in Networks :
          n # network' =>
              GetLastProcessedBlock(stateFile'[StateFileName(n)], n)
                  = GetLastProcessedBlock(stateFile[StateFileName(n)], n)]_vars

\* C6, witness: two networks were set to different blocks and each reads
\* its own.
TwoNetworksHoldTheirBlocks ==
    /\ lastSet["sepolia"] >= 0 /\ lastSet["mainnet"] >= 0
    /\ lastSet["sepolia"] # lastSet["mainnet"]
    /\ Checkpoint("sepolia") = lastSet["sepolia"]
    /\ Checkpoint("mainnet") = lastSet["mainnet"]

\* C7: on a missing or illegible state file get_last_processed_block does
\* not raise and returns the network's default, positive for a known network.
GetDegradesToDefault ==
    (got.valid /\ got.file.kind \in {"absent", "corrupt"}) =>
        /\ ~got.raised
        /\ got.ret = GetDefaultStartingBlock(got.network)
        /\ (got.network \in KnownNetworks => got.ret > 0)

\* C7, witness: a get that met an illegible file of a known network.
GetOnCorruptFile ==
    /\ got.valid /\ got.file.kind = "corrupt"
    /\ got.network = "mainnet" /\ got.ret = MainnetDefault

\* C8: from the end of a successful update of a network to the start of its
\* next update, get_last_processed_block returns the block that was set.
UpdateThenGetRoundTrip ==
    \A n \in Networks :
        lastSet[n] >= 0 =>
            GetLastProcessedBlock(stateFile[StateFileName(n)], n)
                = [raised |-> FALSE, ret |-> lastSet[n]]

\* C8, witness: a get, after an update, that read a legible file and
\* returned the block set, which is not the network's default.
GetReturnedTheBlockSet ==
    /\ got.valid /\ got.file.kind = "json"
    /\ got.ret = lastSet[got.network]
    /\ got.ret # GetDefaultStartingBlock(got.network)

\* C9: the state files are legible at every point.
StateFileAlwaysLegible ==
    \A f \in StateFiles : stateFile[f].kind # "corrupt"

\* C10: when update_last_processed_block fails, the caller gets the
\* exception: the run ends with exit status 1 and reports no completion.
PersistFailureIsFatal ==
    upd = "failed" => (pc = "idle" /\ exit = "exit1" /\ ~reported)

\* C10, witness: a run that handled a batch and failed writing the
\* checkpoint.
RunFailedAtAdvancing ==
    /\ upd = "failed" /\ exit = "exit1"
    /\ events # <<>> /\ idx = Len(events) + 1

\* C11: the range an invocation queries starts one block after the checkpoint
\* it read and ends at the chain head it was told, so that the ranges of
\* consecutive invocations neither overlap nor leave a gap.
QueriedRangeStartsAfterCheckpoint ==
    fetch.requests > 0 =>
        /\ fetch.from_block = got.ret + 1
        /\ fetch.to_block = current_block

\* C12: an invocation whose chain head is at or below its checkpoint goes on
\* to the checkpoint update without work: no query is sent to the log API
\* and no event is handled.
HeadNotAheadDoesNoWork ==
    (pc \in {"loop", "upd_load", "upd_open", "upd_dump"}
       /\ current_block <= last_block) =>
        (fetch.requests = 0 /\ handled = <<>>)

\* C13: an event that failed in an invocation whose checkpoint then advanced
\* to or past its block is not among the events a later invocation fetched
\* and works on.
RetiredEventNotFetchedAgain ==
    pc \in {"loop", "upd_load", "upd_open", "upd_dump"} =>
        \A i \in 1..Len(events) :
            [network |-> network,
             transactionHash |-> events[i].transactionHash,
             blockNumber |-> events[i].blockNumber] \notin retired

\* C14: happy path.  An invocation that completes after fetching one event
\* above its checkpoint and at or below the head, whose gist holds a claim
\* that passes every gate and is signed by the claimed address and by the
\* submitter, hands the claim to the writer; with the registry deployed and
\* the receipt's status 1 that is exactly one successful write; and the
\* checkpoint ends at the head.
HappyPathAttestsOnce ==
    (pc = "idle" /\ exit = "exit0" /\ Len(events) = 1 /\ lastCall.valid
       /\ lastCall.claimValid
       /\ last_block < events[1].blockNumber
       /\ events[1].blockNumber <= current_block) =>
        /\ lastCall.called
        /\ (~lastCall.placeholder /\ lastCall.chain = "status1") =>
               (processed_count = 1 /\ Len(txs) = 1)
        /\ Checkpoint(network) = current_block

\* C15: an invocation ends with a non-zero status exactly when a fatal
\* condition occurred: a required setting missing or unusable, the
\* checkpoint write failing, or the event query failing on every attempt;
\* otherwise it ends with status 0 and the checkpoint at the head.  (Runs
\* whose query of the chain head raised are left aside: the taxonomy does not
\* name that failure.)
ConfigErrorRun == config = "missing" \/ network \notin KnownNetworks
HeadQueryFailed == got.valid /\ fetch.how = "none" /\ exit = "exit1"
FatalCondition ==
    ConfigErrorRun \/ upd = "failed" \/ QueryFailedEveryAttempt
ExitStatusTellsFatal ==
    (RunEnded /\ ~HeadQueryFailed) =>
        /\ (exit = "exit1") <=> FatalCondition
        /\ ~FatalCondition => Checkpoint(network) = current_block

\* C16: an invocation that finds a required setting missing ends at startup
\* with status 1 and nothing done: the checkpoint is not read, the state file
\* is as it was, no event query is made and no transaction is sent.
MissingConfigStopsAtStartup ==
    config = "missing" =>
        /\ pc = "idle" /\ exit = "exit1"
        /\ ~got.valid
        /\ upd = "none"
        /\ stateFile = [stateFile EXCEPT ![StateFileName(network)] = startFile]
        /\ fetch = NoFetch
        /\ txs = <<>> /\ handled = <<>>
MissingConfigAfterACheckpoint ==
    /\ config = "missing"
    /\ runs = MaxRuns
    /\ startFile # Absent
    /\ exit = "exit1"

\* C17: an invocation goes through its phases in the order Idle,
\* DeterminingRange, Fetching, ProcessingBatch (none when the batch is empty),
\* Advancing, Idle, or leaves any phase for Idle when it fails or is killed;
\* the state file is written only in Advancing, after every event of the
\* batch has been handled; the step that completes the write ends the
\* invocation, so that there is one write at most; and every invocation that
\* started ends.
Phase(p) ==
    CASE p = "idle" -> 0
      [] p \in {"read", "head"} -> 1
      [] p = "fetch" -> 2
      [] p = "loop" -> 3
      [] p \in {"upd_load", "upd_open", "upd_dump"} -> 4
PhaseOrder(p, q) ==
    \/ Phase(q) = 0
    \/ Phase(q) = Phase(p)
    \/ Phase(q) = Phase(p) + 1
    \/ Phase(p) = 2 /\ Phase(q) = 4 /\ events' = <<>>
RunFollowsOrderAndEnds ==
    /\ [][PhaseOrder(pc, pc')]_vars
    /\ [][stateFile' # stateFile =>
             (Phase(pc) = 4 /\ idx = Len(events) + 1)]_vars
    /\ [][(pc = "upd_dump" /\ upd' = "ok") => pc' = "idle"]_vars
    /\ (pc # "idle") ~> (pc = "idle")
BatchWrittenOnceAtTheEnd ==
    /\ pc = "idle" /\ exit = "exit0" /\ upd = "ok"
    /\ Len(events) = MaxLogs
    /\ Len(handled) = MaxLogs
    /\ stateFile[StateFileName(network)] # startFile

\* C18: create_attestation called with the zero placeholder as registry
\* address, which is what a deployment file that cannot be loaded leaves,
\* returns failure and broadcasts no transaction.
PlaceholderRegistryRefuses ==
    (lastCall.called /\ lastCall.placeholder) =>
        (~lastCall.sent /\ ~lastCall.success)
PlaceholderRegistryMet ==
    /\ lastCall.called /\ lastCall.placeholder
    /\ ~lastCall.sent
    /\ failed_count = 1 /\ txs = <<>>

\* C19: create_attestation returns success exactly when the transaction was
\* broadcast and its receipt has status 1: a timeout, a status 0 and an error
\* before the broadcast yield failure; and an invocation has broadcast no more
\* transactions than it has handled events.
SuccessIffReceiptStatusOne ==
    /\ lastCall.called =>
          /\ lastCall.success <=> (lastCall.sent /\ lastCall.chain = "status1")
          /\ lastCall.sent <=>
                (~lastCall.placeholder
                 /\ lastCall.chain \in {"status1", "status0", "timeout"})
    /\ exit # "killed" => Len(txs) <= Len(handled)
TimeoutCountsAsFailure ==
    /\ lastCall.called /\ lastCall.sent
    /\ lastCall.chain = "timeout"
    /\ ~lastCall.success
    /\ processed_count = 1 /\ failed_count = 1 /\ Len(txs) = 2

\* C20: the transaction an event's attestation broadcasts carries the
\* claim's address, the claim's github_username and the gist URL of the event.
TransactionCarriesEventGistUrl ==
    lastCall.sent =>
        /\ txs[Len(txs)].ethAddress.hex = events[idx - 1].submitter.hex
        /\ txs[Len(txs)].githubUsername = "alice"
        /\ txs[Len(txs)].gistUrl = events[idx - 1].gist_url

\* C26: the events an event query returned are in ascending order of block
\* number, in whatever order the API listed the log records.
EventsInBlockOrder ==
    \A i, j \in 1..Len(events) :
        i < j => events[i].blockNumber <= events[j].blockNumber

\* C27: every event of the event source carries the gist URL its submission
\* emitted on chain.
EventCarriesEmittedGistUrl ==
    \A i \in 1..Len(events) : events[i].gist_url = EmittedUrl(events[i])

\* C29: a log query makes 3 requests at most; every request but the last one
\* met a transient failure and was followed by one sleep, of 5 seconds after
\* a rate-limit response and of 2 seconds after another failure; nothing
\* follows an answer, and no sleep follows the third request.
RetryPolicyHolds ==
    fetch.requests > 0 =>
        /\ fetch.requests <= 3
        /\ Len(fetch.kinds) = fetch.requests
        /\ Len(fetch.sleeps) = fetch.requests - 1
        /\ \A i \in 1..(fetch.requests - 1) :
              /\ fetch.kinds[i] \in {"error", "ratelimit"}
              /\ fetch.sleeps[i] = IF fetch.kinds[i] = "ratelimit" THEN 5 ELSE 2
        /\ fetch.requests < 3 => fetch.kinds[fetch.requests] \in {"ok1", "ok0"}
ThreeRequestsTwoSleeps ==
    /\ fetch.requests = 3
    /\ fetch.kinds = <<"ratelimit", "error", "error">>
    /\ fetch.sleeps = <<5, 2>>
    /\ pc = "upd_load"

\* C30: a log query whose third request still meets a transient failure, a
\* rate-limit response included, ends in an error: the response of the third
\* request is not taken for the result of the query.
ThirdFailureEndsInError ==
    (fetch.requests = 3 /\ fetch.kinds[3] \in {"error", "ratelimit"}) =>
        fetch.how = "raised"
\* C21: fetch_and_validate_gist applies its five gates in the order URL,
\* fetch, structure, signature, freshness; it returns the document when all
\* five pass and only then; and what it returns on a rejection tells the gate
\* that failed first: rejections at different gates return different things.
GatesOf(url, resp, now) ==
    <<ExtractGistId(url).ok, FetchGistContent(resp).ok,
      ValidateJsonStructure(resp.doc), ValidateSignature(resp.doc),
      ValidateTimestamp(resp.doc, now)>>
GateNames == <<"url", "fetch", "structure", "signature", "timestamp">>
FirstFailing(g) ==
    IF \A i \in 1..Len(g) : g[i] THEN "none"
    ELSE GateNames[CHOOSE i \in 1..Len(g) :
                       ~g[i] /\ \A j \in 1..(i - 1) : g[j]]
RejectionTellsItsGate ==
    probe.valid =>
        /\ probe.gate = FirstFailing(GatesOf(probe.url, probe.resp, probe.now))
        /\ probe.ok <=> (probe.gate = "none")
        /\ \A u \in ProbeUrls : \A r \in ProbeResponsesFor(u) :
              LET v == FetchAndValidateGist(u, r, probe.now)
                  w == FetchAndValidateGist(probe.url, probe.resp, probe.now)
              IN  (~v.ok /\ ~w.ok /\ v.gate # w.gate) =>
                      Returned(v) # Returned(w)

\* C22: _validate_json_structure accepts a document only if each of the five
\* required keys is there with a non-empty value, the address is an address
\* and the signature has the 0x prefix and the required length; a key beyond
\* the five changes nothing.
WithKey(doc) == [doc EXCEPT !.present = @ \cup {"gist_url"}]
WithoutKey(doc) == [doc EXCEPT !.present = @ \ {"gist_url"}]
StructureNeedsEveryField ==
    (probe.valid /\ probe.resp.kind = "doc") =>
        LET doc == probe.resp.doc
        IN  /\ probe.structure =>
                  /\ AllFields \subseteq doc.present
                  /\ doc.message # "" /\ doc.github_username # ""
                  /\ doc.signature.len > 0 /\ doc.address.hex # ""
                  /\ doc.timestamp # 0
                  /\ doc.address.hex \in AddressHexes
                  /\ doc.address.style \in {"lower", "checksum"}
                  /\ doc.signature.prefix /\ doc.signature.len = 132
            /\ ValidateJsonStructure(WithKey(doc)) = probe.structure
            /\ ValidateJsonStructure(WithoutKey(doc)) = probe.structure
ExtraKeyAccepted ==
    /\ probe.valid /\ probe.resp.kind = "doc"
    /\ "gist_url" \in probe.resp.doc.present
    /\ probe.structure
    /\ probe.ok

\* C23: of the documents that are in order otherwise, the format check of
\* the signature accepts those whose signature has the 0x prefix and 132
\* characters, and no other: 130, 131 and 133 characters are rejected.
OtherwiseInOrder(doc) ==
    /\ AllFields \subseteq doc.present
    /\ \A f \in AllFields \ {"signature"} : ~Falsy(doc, f)
    /\ IsAddress(doc.address)
SignatureFormatExact ==
    (probe.valid /\ probe.resp.kind = "doc"
       /\ OtherwiseInOrder(probe.resp.doc)) =>
        LET sig == probe.resp.doc.signature
        IN  /\ probe.structure <=> (sig.prefix /\ sig.len = 132)
            /\ sig.len \in {130, 131, 133} => ~probe.structure
LongSignatureRejected ==
    /\ probe.valid /\ probe.resp.kind = "doc"
    /\ OtherwiseInOrder(probe.resp.doc)
    /\ probe.resp.doc.signature.prefix
    /\ probe.resp.doc.signature.len = 133
    /\ probe.gate = "structure"

\* C24: of the documents that pass the first four gates, the one whose
\* timestamp is exactly 24 * 3600 seconds old is rejected and the one a
\* second younger accepted; the one 301 seconds ahead is rejected and the
\* one 299 seconds ahead accepted.
FreshnessBoundary ==
    (probe.valid /\ probe.gate \in {"timestamp", "none"}) =>
        LET age == probe.now - probe.resp.doc.timestamp
        IN  /\ age = 24 * 3600 => ~probe.ok
            /\ age = 24 * 3600 - 1 => probe.ok
            /\ age = -301 => ~probe.ok
            /\ age = -299 => probe.ok

\* C25, as claimed: a second validation of the same document, at whatever
\* moment, gives the verdict and the gate of the first.
RevalidationAgrees ==
    probe.again.valid =>
        (probe.again.ok = probe.ok /\ probe.again.gate = probe.gate)

\* C25, amended: a second validation of the same document gives the verdict
\* and the gate of the first when the document fails one of the first four
\* gates, and when the two moments are both inside or both outside the time
\* the document is fresh, from 300 seconds before its timestamp to 24 hours
\* after.
Fresh(doc, now) ==
    doc.timestamp - 300 <= now /\ now <= doc.timestamp + 24 * 3600
RevalidationAgreesWhileFresh ==
    probe.again.valid =>
        ((probe.gate \notin {"timestamp", "none"}
            \/ Fresh(probe.resp.doc, probe.now)
                 = Fresh(probe.resp.doc, probe.again.now)) =>
            (probe.again.ok = probe.ok /\ probe.again.gate = probe.gate))
RevalidatedAtTheLimits ==
    /\ probe.again.valid
    /\ probe.ok /\ probe.again.ok
    /\ probe.now - probe.resp.doc.timestamp = 24 * 3600
    /\ probe.again.now - probe.resp.doc.timestamp = 24 * 3600 - 1
AttestedAddressIsSubmitter ==
    [][Len(txs') > Len(txs) =>
          /\ txs' = Append(txs, txs'[Len(txs')])
          /\ Lower(txs'[Len(txs')].ethAddress) = Lower(events[idx].submitter)
          /\ lastCall'.signerIsClaimed
          /\ lastCall'.signerIsSubmitter]_vars

\* C31, witness: the last turn of the loop broadcast a transaction whose
\* address is written in another letter case than the event's submitter.
AttestedAddressInAnotherCase ==
    /\ lastCall.sent /\ idx > 1 /\ Len(txs) > 0
    /\ txs[Len(txs)].ethAddress # events[idx - 1].submitter
    /\ Lower(txs[Len(txs)].ethAddress) = Lower(events[idx - 1].submitter)

\* An invocation that found the state file of its network corrupt when it
\* began.
BeganOnCorruptFile == exit # "none" /\ startFile = Corrupt

\* C32: from an invocation that begins on a corrupt state file on, the file
\* stays as it is: get_last_processed_block returns the default without
\* raising, update_last_processed_block raises at its load and never opens
\* the file for writing, so the invocation, when it gets as far as the
\* update, ends there with exit status 1, and no step of any invocation
\* turns a corrupt file it did not truncate itself into a legible one.
CorruptFileStallsThePipeline ==
    /\ [](BeganOnCorruptFile =>
             /\ stateFile[StateFileName(network)] = Corrupt
             /\ got.valid =>
                   /\ ~got.raised
                   /\ got.ret = GetDefaultStartingBlock(network)
                   /\ pc # "idle" => last_block = GetDefaultStartingBlock(network)
             /\ pc \notin {"upd_open", "upd_dump"}
             /\ upd # "ok"
             /\ upd = "failed" => exit = "exit1" /\ pc = "idle")
    /\ [][\A f \in StateFiles :
             (stateFile[f] = Corrupt /\ stateFile'[f] # Corrupt) =>
                 /\ pc = "upd_dump" /\ f = StateFileName(network)
                 /\ startFile # Corrupt]_vars

\* C32, witness: a second invocation began on the file the first one left
\* corrupt, read the default, reached the update and failed there; the
\* file is still corrupt.
SecondRunFailedOnCorruptFile ==
    /\ runs = 2 /\ BeganOnCorruptFile
    /\ got.valid /\ got.file = Corrupt
    /\ got.ret = GetDefaultStartingBlock(network)
    /\ upd = "failed" /\ exit = "exit1"
    /\ stateFile[StateFileName(network)] = Corrupt

\* The invocation at work is the first one after the interrupted one, on
\* the same network.
ResumesInterrupted ==
    /\ interrupted.run > 0
    /\ runs = interrupted.run + 1
    /\ network = interrupted.network
    /\ config = "ok"

HeldBefore == IF startFile.kind = "json" THEN startFile.data ELSE EmptyDict

\* C34: the object a completed update_last_processed_block leaves in the
\* state file has the keys the file held before and the two keys of the
\* store; every other key has the value it had, last_processed_block is
\* the argument and network is the manager's network.
UpdateKeepsOtherKeys ==
    (pc = "idle" /\ upd = "ok") =>
        LET f == stateFile[StateFileName(network)]
        IN  /\ f.kind = "json"
            /\ DOMAIN f.data =
                  DOMAIN HeldBefore \cup {"last_processed_block", "network"}
            /\ \A k \in DOMAIN HeldBefore \ {"last_processed_block", "network"} :
                   f.data[k] = HeldBefore[k]
            /\ f.data["last_processed_block"] = current_block
            /\ f.data["network"] = network

\* C34, witness: an update completed on a file that held a key of its own,
\* another block and the name of another network.
UpdateKeptTheOtherKey ==
    /\ pc = "idle" /\ upd = "ok"
    /\ startFile.kind = "json"
    /\ DOMAIN startFile.data = {KeptKey, "last_processed_block", "network"}
    /\ startFile.data["network"] # network
    /\ startFile.data["last_processed_block"] # current_block
    /\ stateFile[StateFileName(network)].data[KeptKey] = startFile.data[KeptKey]

====
